---- MODULE Spec2Model ----
(***************************************************************************)
(* SunSafe (src/src/App.js): the AQI component, which turns a PM2.5        *)
(* concentration into a US AQI index, a category and a colour, and the App *)
(* component's search box and "Get Data" handlers.                         *)
(*                                                                         *)
(* Concentrations are fixed-point integers counting hundredths of a        *)
(* microgram per cubic metre: 12.1 is 1210, 500.4 is 50040.  The           *)
(* interpolation of App.js:26-28 is evaluated in exact rational arithmetic;*)
(* on every hundredth between -2.00 and 502.00 the IEEE-754 double         *)
(* evaluation of the same expression followed by Math.round gives the same *)
(* integer (the first disagreement is at thousandths, 37.291).             *)
(***************************************************************************)
EXTENDS Integers, Sequences, FiniteSets, TLC

VARIABLES
    pc,          \* AQI component: "mount" before the first render, "shown" after
    pm2_5,       \* AQI component: the pm2_5 prop
    bpIdx,       \* AQI component: index of the band the loop broke at, 0 if none
    aqi,         \* AQI component: local aqi after the loop
    cat,         \* AQI component: local cat after the loop
    out,         \* AQI component: what the render returned
    lat,         \* App state lat
    lon,         \* App state lon
    search,      \* App state search
    suggestions, \* App state suggestions
    loading,     \* App state loading
    err,         \* App state err
    result,      \* App state result
    debounceRef, \* the pending timer debounceRef.current names, if any
    geocoding,   \* the geocoding requests in flight (line 57), by query
    runs,        \* the getWeatherData calls suspended at an await
    lastUser     \* history: the latest user action on the search box

aqiVars == <<pc, pm2_5, bpIdx, aqi, cat, out>>
searchVars == <<search, suggestions, debounceRef, geocoding, lastUser>>
weatherVars == <<loading, err, result, runs>>
appVars == <<lat, lon, searchVars, weatherVars>>
vars == <<aqiVars, appVars>>

-----------------------------------------------------------------------------
(* Bounds of the inputs.                                                   *)

\* largest numeric concentration tried, in hundredths (above the table's 500.4)
MaxPm == 50200
\* the numeric concentrations tried go down to -MaxNeg hundredths
MaxNeg == 200
\* a re-render raises the concentration by 1..MaxStep hundredths
MaxStep == 2
\* getWeatherData calls that may be suspended at an await at once
MaxRuns == 2
\* geocoding requests that may be in flight at once
MaxGeocode == 2

-----------------------------------------------------------------------------
(* JavaScript values of the pm2_5 prop.                                    *)

Undefined == [t |-> "undefined", n |-> 0, s |-> <<>>]
Null      == [t |-> "null",      n |-> 0, s |-> <<>>]
NaN       == [t |-> "NaN",       n |-> 0, s |-> <<>>]
Num(n)    == [t |-> "number",    n |-> n, s |-> <<>>]
Str(s)    == [t |-> "string",    n |-> 0, s |-> s]

\* string props tried: "", "x", ".", "12.1", "1.", ".5", "1.2.", "-1"
StringInputs ==
    { <<>>, <<"x">>, <<".">>, <<"1", "2", ".", "1">>, <<"1", ".">>,
      <<".", "5">>, <<"1", ".", "2", ".">>, <<"-", "1">> }

Inputs ==
    {Undefined, Null, NaN}
      \cup {Num(n) : n \in (0 - MaxNeg)..MaxPm}
      \cup {Str(s) : s \in StringInputs}

Digits == {"0", "1", "2", "3", "4", "5", "6", "7", "8", "9"}

DigitVal(c) ==
    CASE c = "0" -> 0 [] c = "1" -> 1 [] c = "2" -> 2 [] c = "3" -> 3
      [] c = "4" -> 4 [] c = "5" -> 5 [] c = "6" -> 6 [] c = "7" -> 7
      [] c = "8" -> 8 [] c = "9" -> 9

RECURSIVE DigitsVal(_)
\* the decimal numeral s (digits only) as an integer; the empty numeral is 0
DigitsVal(s) ==
    IF s = <<>> THEN 0
    ELSE 10 * DigitsVal(SubSeq(s, 1, Len(s) - 1)) + DigitVal(s[Len(s)])

\* an unsigned StrDecimalLiteral with at most two fraction digits, in hundredths
UnsignedToNumber(s) ==
    LET dots == {i \in 1..Len(s) : s[i] = "."}
        ok   == /\ \A i \in 1..Len(s) : s[i] \in Digits \cup {"."}
                /\ Cardinality(dots) <= 1
                /\ \E i \in 1..Len(s) : s[i] \in Digits
    IN  IF ~ok THEN NaN
        ELSE IF dots = {} THEN Num(100 * DigitsVal(s))
        ELSE LET d    == CHOOSE i \in dots : TRUE
                 frac == SubSeq(s, d + 1, Len(s))
                 pad  == IF Len(frac) = 0 THEN <<"0", "0">>
                         ELSE IF Len(frac) = 1 THEN frac \o <<"0">>
                         ELSE frac
             IN  Num(100 * DigitsVal(SubSeq(s, 1, d - 1)) + DigitsVal(pad))

\* ToNumber applied to a string: "" is 0, a signed decimal literal is its
\* value, anything else is NaN
StringToNumber(s) ==
    IF s = <<>> THEN Num(0)
    ELSE IF s[1] = "-"
         THEN LET u == UnsignedToNumber(Tail(s))
              IN  IF u.t = "NaN" THEN NaN ELSE Num(0 - u.n)
         ELSE UnsignedToNumber(s)

\* ToNumber, the coercion isNaN, >=, <= and - apply to their operand
ToNumber(v) ==
    CASE v.t = "undefined" -> NaN
      [] v.t = "null"      -> Num(0)
      [] v.t = "NaN"       -> NaN
      [] v.t = "number"    -> v
      [] v.t = "string"    -> StringToNumber(v.s)

IsNaN(v) == ToNumber(v).t = "NaN"

-----------------------------------------------------------------------------
(* Values of the App component's state.                                    *)

\* err: null, or the message of the error caught at line 106
NoErr == [null |-> TRUE, message |-> ""]
Err(m) == [null |-> FALSE, message |-> m]

\* result: null, or the object of lines 102-105; aqi is null or {pm2_5: ...}
\* (the five other pollutant fields of lines 88-98 are built the same way)
NullAqiData == [null |-> TRUE, pm2_5 |-> Undefined]
AqiData(v) == [null |-> FALSE, pm2_5 |-> v]
NoResult == [null |-> TRUE, weather |-> "", aqi |-> NullAqiData]
Result(w, a) == [null |-> FALSE, weather |-> w, aqi |-> a]

\* debounceRef.current: no pending timer, or the pending timer and its val
NoTimer == [pending |-> FALSE, val |-> ""]
Timer(val) == [pending |-> TRUE, val |-> val]

-----------------------------------------------------------------------------
(* The AQI component.                                                      *)

breakpoints ==
    << [AQIh |->  50, Cl |->     0, Ch |->  1200, category |-> "Good"],
       [AQIh |-> 100, Cl |->  1210, Ch |->  3540, category |-> "Moderate"],
       [AQIh |-> 150, Cl |->  3550, Ch |->  5540, category |-> "Unhealthy for Sensitive"],
       [AQIh |-> 200, Cl |->  5550, Ch |-> 15040, category |-> "Unhealthy"],
       [AQIh |-> 300, Cl |-> 15050, Ch |-> 25040, category |-> "Very Unhealthy"],
       [AQIh |-> 400, Cl |-> 25050, Ch |-> 35040, category |-> "Hazardous"],
       [AQIh |-> 500, Cl |-> 35050, Ch |-> 50040, category |-> "Extremely Hazardous"] >>

\* the early return of line 10
EarlyReturn(v) == v.t = "undefined" \/ v.t = "null" \/ IsNaN(v)

InBandNoLower(n, bp) == n <= bp.Ch

InBandStrictUpper(n, bp) == n >= bp.Cl /\ n < bp.Ch

\* the condition of line 22, on the coerced operand
InBand(n, bp) == n >= bp.Cl /\ n <= bp.Ch

RECURSIVE Scan(_, _)
\* the for loop: the index of the first band that holds n, 0 if the loop ends
\* without a break
Scan(i, n) ==
    IF i > Len(breakpoints) THEN 0
    ELSE IF InBand(n, breakpoints[i]) THEN i
    ELSE Scan(i + 1, n)

AQIlAlwaysZero(i) == 0

\* line 24: the previous band's AQIh, or 0 (undefined?.AQIh || 0) for the first
AQIl(i) == IF i - 1 >= 1 THEN breakpoints[i - 1].AQIh ELSE 0

\* Math.round of the rational num/den (den > 0): the nearest integer, ties up
MathRound(num, den) == (2 * num + den) \div (2 * den)

InterpolateReversed(i, n) ==
    LET bp == breakpoints[i]
    IN  MathRound((bp.AQIh - AQIl(i)) * (bp.Ch - n) + AQIl(i) * (bp.Ch - bp.Cl),
                  bp.Ch - bp.Cl)

\* lines 26-28: round(((AQIh - AQIl) / (Ch - Cl)) * (pm2_5 - Cl) + AQIl)
Interpolate(i, n) ==
    LET bp == breakpoints[i]
    IN  MathRound((bp.AQIh - AQIl(i)) * (n - bp.Cl) + AQIl(i) * (bp.Ch - bp.Cl),
                  bp.Ch - bp.Cl)

\* lines 36-37
Color(a) ==
    IF a <= 50 THEN "#227d34"
    ELSE IF a <= 100 THEN "#edc13b"
    ELSE IF a <= 150 THEN "#ea7417"
    ELSE IF a <= 200 THEN "#c81b19"
    ELSE IF a <= 300 THEN "#7e179a"
    ELSE "#5a2210"

\* the text "—" returned by lines 10 and 33
Dash == [span |-> FALSE, aqi |-> 0, cat |-> "", color |-> ""]

\* the <span> of lines 34-41
Span(a, c) == [span |-> TRUE, aqi |-> a, cat |-> c, color |-> Color(a)]

\* one call of AQI({pm2_5}): the locals after the loop and the value returned
AQI(v) ==
    IF EarlyReturn(v)
    THEN [bpIdx |-> 0, aqi |-> 0, cat |-> "", out |-> Dash]
    ELSE LET n == ToNumber(v).n
             i == Scan(1, n)
             a == IF i = 0 THEN 0 ELSE Interpolate(i, n)
             c == IF i = 0 THEN "" ELSE breakpoints[i].category
         IN  [bpIdx |-> i, aqi |-> a, cat |-> c,
              out |-> IF a = 0 THEN Dash ELSE Span(a, c)]

\* the AQI component before its first render, with a given prop
AQIMount(v) ==
    /\ pc = "mount"
    /\ pm2_5 = v
    /\ bpIdx = 0
    /\ aqi = 0
    /\ cat = ""
    /\ out = Dash

\* the App component after its first render (lines 45-52)
AppInit ==
    /\ lat = "28.61"
    /\ lon = "77.23"
    /\ search = ""
    /\ suggestions = <<>>
    /\ loading = FALSE
    /\ err = NoErr
    /\ result = NoResult
    /\ debounceRef = NoTimer
    /\ geocoding = <<>>
    /\ runs = <<>>
    /\ lastUser = "none"

AQIInit == (\E v \in Inputs : AQIMount(v)) /\ AppInit

\* the first render of <AQI pm2_5={...} /> (line 186)
Render ==
    /\ pc = "mount"
    /\ LET r == AQI(pm2_5)
       IN  /\ bpIdx' = r.bpIdx
           /\ aqi' = r.aqi
           /\ cat' = r.cat
           /\ out' = r.out
    /\ pc' = "shown"
    /\ UNCHANGED <<pm2_5, appVars>>

\* a later render of the component with a higher numeric reading
Rerender ==
    /\ pc = "shown"
    /\ pm2_5.t = "number"
    /\ \E d \in 1..MaxStep :
         /\ pm2_5.n + d <= MaxPm
         /\ pm2_5' = Num(pm2_5.n + d)
    /\ LET r == AQI(pm2_5')
       IN  /\ bpIdx' = r.bpIdx
           /\ aqi' = r.aqi
           /\ cat' = r.cat
           /\ out' = r.out
    /\ UNCHANGED <<pc, appVars>>

AQINext == Render \/ Rerender

SpecAQI == AQIInit /\ [][AQINext]_vars

-----------------------------------------------------------------------------
(* The search box (lines 54-62, 134-165).                                  *)

\* texts the user types into the search box
TypedTexts == {"", "pa", "par", "pari"}

Paris == [place_id |-> "p1", display_name |-> "Paris, France", lat |-> "48.85", lon |-> "2.35"]
Parma == [place_id |-> "p2", display_name |-> "Parma, Italy", lat |-> "44.80", lon |-> "10.33"]

\* bodies the geocoding service answers with: JSON null or an array of places
GeocodeBodies ==
    { [null |-> TRUE,  places |-> <<>>],
      [null |-> FALSE, places |-> <<>>],
      [null |-> FALSE, places |-> <<Paris>>],
      [null |-> FALSE, places |-> <<Paris, Parma>>] }

\* the sequence s without its i-th element
Remove(s, i) == SubSeq(s, 1, i - 1) \o SubSeq(s, i + 1, Len(s))

\* onChange of the search input (lines 138-142), with debouncedFetch (54-62)
\* up to the setTimeout: the earlier timer is cleared and a new one set
EditSearch(val) ==
    /\ search' = val
    /\ IF Len(val) >= 3
       THEN /\ debounceRef' = Timer(val)
            /\ UNCHANGED suggestions
       ELSE /\ suggestions' = <<>>
            /\ UNCHANGED debounceRef
    /\ lastUser' = "edit"
    /\ UNCHANGED <<geocoding, lat, lon, weatherVars, aqiVars>>

\* the timer callback (lines 56-57): the geocoding request is sent
TimerFires ==
    /\ debounceRef.pending
    /\ Len(geocoding) < MaxGeocode
    /\ geocoding' = Append(geocoding, debounceRef.val)
    /\ debounceRef' = NoTimer
    /\ UNCHANGED <<search, suggestions, lastUser, lat, lon, weatherVars, aqiVars>>

\* lines 58-59: a request resolves and its body parses; data || []
GeocodeResolves(i, body) ==
    /\ i \in 1..Len(geocoding)
    /\ suggestions' = (IF body.null THEN <<>> ELSE body.places)
    /\ geocoding' = Remove(geocoding, i)
    /\ UNCHANGED <<search, debounceRef, lastUser, lat, lon, weatherVars, aqiVars>>

\* line 60: the request or the parse rejects
GeocodeRejects(i) ==
    /\ i \in 1..Len(geocoding)
    /\ suggestions' = <<>>
    /\ geocoding' = Remove(geocoding, i)
    /\ UNCHANGED <<search, debounceRef, lastUser, lat, lon, weatherVars, aqiVars>>

\* onClick of the k-th suggestion (lines 153-158)
SelectSuggestion(k) ==
    /\ k \in 1..Len(suggestions)
    /\ search' = suggestions[k].display_name
    /\ lat' = suggestions[k].lat
    /\ lon' = suggestions[k].lon
    /\ suggestions' = <<>>
    /\ lastUser' = "select"
    /\ UNCHANGED <<debounceRef, geocoding, weatherVars, aqiVars>>

SearchNext ==
    \/ \E val \in TypedTexts : EditSearch(val)
    \/ TimerFires
    \/ \E i \in 1..MaxGeocode, body \in GeocodeBodies : GeocodeResolves(i, body)
    \/ \E i \in 1..MaxGeocode : GeocodeRejects(i)
    \/ \E k \in 1..2 : SelectSuggestion(k)

SearchInit == AQIMount(Undefined) /\ AppInit

SpecSearch == SearchInit /\ [][SearchNext]_vars

-----------------------------------------------------------------------------
(* getWeatherData (lines 64-110) and the inputs it reads (lines 170-177).  *)

\* texts the user types into the latitude and longitude inputs
CoordTexts == {"28.61", "48.85"}

\* messages of the rejections of fetch() and of .json()
FetchRejections == {"Failed to fetch"}
JsonRejections == {"Unexpected end of JSON input"}

\* bodies the weather service answers with: JSON null, {}, {current: ...}
WeatherBodies ==
    { [null |-> TRUE,  current |-> "undefined"],
      [null |-> FALSE, current |-> "undefined"],
      [null |-> FALSE, current |-> "current1"] }

\* bodies the air-quality service answers with: JSON null, {}, and objects
\* with hourly.time and hourly.pm2_5 present or missing
AqiBodies ==
    { [null |-> TRUE,  hourly |-> FALSE, hasTime |-> FALSE, time |-> <<>>,
       hasPm |-> FALSE, pm2_5 |-> <<>>],
      [null |-> FALSE, hourly |-> FALSE, hasTime |-> FALSE, time |-> <<>>,
       hasPm |-> FALSE, pm2_5 |-> <<>>],
      [null |-> FALSE, hourly |-> TRUE, hasTime |-> TRUE, time |-> <<"t0", "t1">>,
       hasPm |-> TRUE, pm2_5 |-> <<Num(0), Num(1210)>>],
      [null |-> FALSE, hourly |-> TRUE, hasTime |-> TRUE, time |-> <<>>,
       hasPm |-> TRUE, pm2_5 |-> <<Num(1205)>>],
      [null |-> FALSE, hourly |-> TRUE, hasTime |-> TRUE, time |-> <<"t0", "t1">>,
       hasPm |-> TRUE, pm2_5 |-> <<Num(5000)>>],
      [null |-> FALSE, hourly |-> TRUE, hasTime |-> FALSE, time |-> <<>>,
       hasPm |-> FALSE, pm2_5 |-> <<>>] }

\* the message of the TypeError a property read of null throws
NullRead == "Cannot read properties of null"

\* onChange of the latitude input (line 170)
SetLat(v) ==
    /\ lat' = v
    /\ UNCHANGED <<lon, searchVars, weatherVars, aqiVars>>

\* onChange of the longitude input (line 174)
SetLon(v) ==
    /\ lon' = v
    /\ UNCHANGED <<lat, searchVars, weatherVars, aqiVars>>

\* a call suspended at an await: where, the coordinates of its URLs, and
\* weatherData once line 73 has set it
Run(at, la, lo, w) == [at |-> at, lat |-> la, lon |-> lo, weatherData |-> w]

NoWeatherData == [null |-> FALSE, current |-> "unset"]

\* onClick of "Get Data": lines 65-71, up to the first await
GetData ==
    /\ Len(runs) < MaxRuns
    /\ loading' = TRUE
    /\ err' = NoErr
    /\ result' = NoResult
    /\ runs' = Append(runs, Run("fetchWeather", lat, lon, NoWeatherData))
    /\ UNCHANGED <<lat, lon, searchVars, aqiVars>>

\* lines 106-109: the catch block, then setLoading(false); the call ends
Caught(i, message) ==
    /\ err' = Err(message)
    /\ loading' = FALSE
    /\ runs' = Remove(runs, i)
    /\ UNCHANGED result

\* lines 102-105 and 109: reading weatherData.current throws when the weather
\* body was null; otherwise setResult, then setLoading(false); the call ends
Finish(i, aqiData) ==
    IF runs[i].weatherData.null
    THEN Caught(i, NullRead)
    ELSE /\ result' = Result(runs[i].weatherData.current, aqiData)
         /\ loading' = FALSE
         /\ runs' = Remove(runs, i)
         /\ UNCHANGED err

\* line 71 resumes with a response; line 72 throws unless it is ok
WeatherResponds(i, ok) ==
    /\ i \in 1..Len(runs)
    /\ runs[i].at = "fetchWeather"
    /\ IF ok
       THEN /\ runs' = [runs EXCEPT ![i].at = "weatherJson"]
            /\ UNCHANGED <<loading, err, result>>
       ELSE Caught(i, "Failed weather fetch")
    /\ UNCHANGED <<lat, lon, searchVars, aqiVars>>

\* line 73 resumes with the parsed body; lines 76-77 send the second request
WeatherParsed(i, body) ==
    /\ i \in 1..Len(runs)
    /\ runs[i].at = "weatherJson"
    /\ runs' = [runs EXCEPT ![i].at = "fetchAQI", ![i].weatherData = body]
    /\ UNCHANGED <<loading, err, result, lat, lon, searchVars, aqiVars>>

\* line 77 resumes with a response; when it is not ok aqiData stays null
AqiResponds(i, ok) ==
    /\ i \in 1..Len(runs)
    /\ runs[i].at = "fetchAQI"
    /\ IF ok
       THEN /\ runs' = [runs EXCEPT ![i].at = "aqiJson"]
            /\ UNCHANGED <<loading, err, result>>
       ELSE Finish(i, NullAqiData)
    /\ UNCHANGED <<lat, lon, searchVars, aqiVars>>

\* lines 81-87: the last hourly sample of pm2_5 (idx is 0-based)
LastSample(json) ==
    LET idx == IF json.hourly /\ json.hasTime /\ Len(json.time) # 0
               THEN Len(json.time) - 1 ELSE 0
    IN  IF json.hasPm
        THEN IF idx + 1 <= Len(json.pm2_5) THEN json.pm2_5[idx + 1] ELSE Undefined
        ELSE Undefined

\* line 80 resumes with the parsed body; lines 81-105
AqiParsed(i, json) ==
    /\ i \in 1..Len(runs)
    /\ runs[i].at = "aqiJson"
    /\ IF json.null
       THEN Caught(i, NullRead)
       ELSE Finish(i, IF json.hourly THEN AqiData(LastSample(json)) ELSE NullAqiData)
    /\ UNCHANGED <<lat, lon, searchVars, aqiVars>>

\* an awaited fetch() (lines 71, 77) or .json() (lines 73, 80) rejects
AwaitRejects(i) ==
    /\ i \in 1..Len(runs)
    /\ \E message \in (IF runs[i].at \in {"fetchWeather", "fetchAQI"}
                       THEN FetchRejections ELSE JsonRejections) :
         Caught(i, message)
    /\ UNCHANGED <<lat, lon, searchVars, aqiVars>>

WeatherNext ==
    \/ \E v \in CoordTexts : SetLat(v)
    \/ \E v \in CoordTexts : SetLon(v)
    \/ GetData
    \/ \E i \in 1..MaxRuns, ok \in BOOLEAN : WeatherResponds(i, ok)
    \/ \E i \in 1..MaxRuns, body \in WeatherBodies : WeatherParsed(i, body)
    \/ \E i \in 1..MaxRuns, ok \in BOOLEAN : AqiResponds(i, ok)
    \/ \E i \in 1..MaxRuns, json \in AqiBodies : AqiParsed(i, json)
    \/ \E i \in 1..MaxRuns : AwaitRejects(i)

WeatherInit == AQIMount(Undefined) /\ AppInit

SpecWeather == WeatherInit /\ [][WeatherNext]_vars

-----------------------------------------------------------------------------
(* Properties of the AQI component, checked under SpecAQI.                 *)

\* the pm2_5 prop is the number n (in hundredths) and has been rendered
Shown(n) == pc = "shown" /\ pm2_5 = Num(n)

\* C1: a PM2.5 concentration of exactly 0.0 renders index 0 with category
\* Good, not the no-data dash.
C1_ZeroIsGood ==
    Shown(0) => out.span /\ out.aqi = 0 /\ out.cat = "Good"

\* C2: a concentration of 12.1 renders index 51 with category Moderate, and
\* 12.0 renders index 50.
C2_LowerBoundaryIs51 ==
    /\ Shown(1210) => out.span /\ out.aqi = 51 /\ out.cat = "Moderate"
    /\ Shown(1200) => out.span /\ out.aqi = 50

\* C3: for every band B, a concentration equal to B.Ch renders index B.AQIh
\* with B's category.
C3_ConcHighGivesIndexHigh ==
    \A i \in 1..Len(breakpoints) :
        Shown(breakpoints[i].Ch) =>
            /\ out.span
            /\ out.aqi = breakpoints[i].AQIh
            /\ out.cat = breakpoints[i].category

C3_Witness == Shown(50040) /\ out.span /\ out.aqi = 500

\* C4: undefined, null, the empty string, NaN, every negative number and
\* every number above 500.4 render the no-data dash.
C4_AbsentInputs ==
    (/\ pc = "shown"
     /\ \/ pm2_5 \in {Undefined, Null, NaN, Str(<<>>)}
        \/ /\ pm2_5.t = "number"
           /\ \/ pm2_5.n < breakpoints[1].Cl
              \/ pm2_5.n > breakpoints[Len(breakpoints)].Ch)
    => out = Dash

C4_Witness == Shown(0 - 100) /\ out = Dash

\* C5: every numeric concentration from 0.0 to 500.4, at hundredths
\* resolution, lies in exactly one band, and the scan finds it.
C5_ScanFindsBand ==
    (/\ pc = "shown" /\ pm2_5.t = "number"
     /\ pm2_5.n >= breakpoints[1].Cl
     /\ pm2_5.n <= breakpoints[Len(breakpoints)].Ch)
    => /\ bpIdx # 0
       /\ Cardinality({i \in 1..Len(breakpoints) :
                          breakpoints[i].Cl <= pm2_5.n
                          /\ pm2_5.n <= breakpoints[i].Ch}) = 1

\* C6: a rendered index is an integer in 0..500 that lies between the
\* previous band's AQIh (0 for the first band) and the matched band's AQIh,
\* the matched band holds the concentration, and the category is that band's.
C6_ValueWithinBandIndexRange ==
    out.span =>
        /\ out.aqi \in 0..500
        /\ bpIdx \in 1..Len(breakpoints)
        /\ breakpoints[bpIdx].Cl <= ToNumber(pm2_5).n
        /\ ToNumber(pm2_5).n <= breakpoints[bpIdx].Ch
        /\ out.aqi >= (IF bpIdx = 1 THEN 0 ELSE breakpoints[bpIdx - 1].AQIh)
        /\ out.aqi <= breakpoints[bpIdx].AQIh
        /\ out.cat = breakpoints[bpIdx].category

C6_Witness == Shown(2375) /\ out.span /\ out.aqi = 75 /\ bpIdx = 2

\* v is a number strictly inside band i
StrictlyInside(v, i) ==
    v.t = "number" /\ breakpoints[i].Cl < v.n /\ v.n < breakpoints[i].Ch

\* C7: when a render at c1 is followed by a render at c2 >= c1 and both lie
\* strictly inside the same band, the computed index does not decrease, and a
\* rendered index stays rendered and does not decrease.  (Steps of up to
\* MaxStep hundredths chain to every pair c1 <= c2 of a band.)
C7_MonotoneInsideBand ==
    [][ \A i \in 1..Len(breakpoints) :
          (/\ pc = "shown" /\ pc' = "shown"
           /\ StrictlyInside(pm2_5, i) /\ StrictlyInside(pm2_5', i)
           /\ pm2_5.n <= pm2_5'.n)
          => /\ aqi <= aqi'
             /\ out.span => (out'.span /\ out.aqi <= out'.aqi) ]_vars

\* a rendered index strictly above the one computed a hundredth below, both
\* strictly inside the Moderate band
C7_Witness ==
    /\ pc = "shown"
    /\ StrictlyInside(pm2_5, 2) /\ StrictlyInside(Num(pm2_5.n - 1), 2)
    /\ out.span
    /\ out.aqi > AQI(Num(pm2_5.n - 1)).aqi

\* C8: the colour of a rendered index is the colour of the category shown
\* beside it.
C8_ColorMatchesCategory ==
    out.span =>
        out.color =
            CASE out.cat = "Good"                    -> "#227d34"
              [] out.cat = "Moderate"                -> "#edc13b"
              [] out.cat = "Unhealthy for Sensitive" -> "#ea7417"
              [] out.cat = "Unhealthy"               -> "#c81b19"
              [] out.cat = "Very Unhealthy"          -> "#7e179a"
              [] out.cat = "Hazardous"               -> "#5a2210"
              [] out.cat = "Extremely Hazardous"     -> "#5a2210"

-----------------------------------------------------------------------------
(* Properties of the App component.                                        *)

\* C9: under SpecWeather, whatever the interleaving of "Get Data" clicks with
\* the completions and failures of their fetches, err and result are never
\* both non-null.
C9_ErrorAndResultExclusive == err.null \/ result.null

\* C10: under SpecSearch, the suggestion list is empty whenever the latest
\* edit left fewer than 3 characters in the search box or the latest user
\* action was the selection of a suggestion.
C10_SuggestionsStayCleared ==
    (\/ lastUser = "select"
     \/ lastUser = "edit" /\ Len(search) < 3)
    => suggestions = <<>>

====
